---- MODULE Spec2Model ----
(***************************************************************************)
(* django_prepared_queries: the substitution cache (django_pq/cache.py),   *)
(* the Lazy proxy and LazyContext (django_pq/lazy.py) and the template     *)
(* normalizer (django_pq/queryset.py), driven the way run_cached of the    *)
(* test application drives them: enter a LazyContext, call the wrapped     *)
(* function with the context's keyword values, leave the context.          *)
(*                                                                         *)
(* Spec     the decorator under run_cached, one context at a time          *)
(* SpecCtx  LazyContext scopes of two callers, nested and interleaved      *)
(* SpecPure get_cache_key, the signature, normalize, assert_equivalent     *)
(*          and LazyContext.get, each applied once to drawn arguments      *)
(***************************************************************************)
EXTENDS Integers, Sequences, FiniteSets, TLC

\* ------------------------------------------------------------------ bounds
\* longest list passed as the "integers" argument
MaxLen == 2
\* wrapped calls in one behaviour
MaxCalls == 3

\* ------------------------------------------------------------------ values
\* A Python value: t is its type, v its content, k the key of a Lazy proxy.
Val(t, v) == [t |-> t, v |-> v, k |-> ""]
NoneV == Val("None", <<>>)
IntV(n) == Val("int", <<n>>)
TrueV == Val("bool", <<1>>)
FalseV == Val("bool", <<0>>)
StrV(s) == Val("str", s)
FloatV(n) == Val("float", <<n>>)
DateV(n) == Val("datetime", <<n>>)
ListV(s) == Val("list", s)
TupleV(s) == Val("tuple", s)
\* Lazy(key): the proxy keeps nothing but its key (Lazy.__init__, self.__key)
LazyV(key) == [t |-> "Lazy", v |-> <<>>, k |-> key]
\* the Stub() instance used in cache keys
stub == Val("Stub", <<>>)
\* LazySubstitute.special
special == <<TrueV, FalseV, NoneV, IntV(0), IntV(1)>>

\* Python ==: numbers compare by value whatever their type (True == 1 == 1.0,
\* False == 0); otherwise same type and content
PyEq(a, b) ==
    \/ a = b
    \/ /\ a.t \in {"bool", "int", "float"}
       /\ b.t \in {"bool", "int", "float"}
       /\ a.v = b.v

\* Python truth value of a real (non-proxy) value
Truthy(a) ==
    CASE a.t = "None" -> FALSE
      [] a.t \in {"bool", "int", "float"} -> a.v[1] # 0
      [] a.t \in {"str", "list", "tuple"} -> Len(a.v) > 0
      [] OTHER -> TRUE

IsSeqVal(a) == a.t \in {"list", "tuple"}

\* the list n, n-1, .., 1
Countdown(n) == [i \in 1..n |-> n + 1 - i]

\* values the caller passes as "integers" and as "dt"
IntegersVals ==
    {NoneV, TupleV(<<>>)} \cup {ListV(Countdown(n)) : n \in 0..MaxLen}
DtVals == {NoneV, StrV(<<>>), DateV(1), DateV(2)}

\* argument names of the wrapped function, with their rank in sorted() order
\* ("limit" is a name only signatures are computed for)
ArgNames == {"dt", "integers"}
NameRank(n) == IF n = "dt" THEN 1 ELSE IF n = "integers" THEN 2 ELSE 3
ArgVals(n) == IF n = "dt" THEN DtVals ELSE IntegersVals

\* keyword dictionaries the caller may pass
KwargsSet ==
    UNION {{kw \in [names -> IntegersVals \cup DtVals] :
              \A n \in names : kw[n] \in ArgVals(n)} : names \in SUBSET ArgNames}

\* ------------------------------------------------------------- outcomes
\* What an evaluation yields: kind "value" (val), "qs" (a QuerySet with
\* its sql_with_params), "raw" (a RawQuerySet), "none" (None) or "raise"
\* (exc the exception class, msg its message).
Out(kind, exc, msg, val, sql, params) ==
    [kind |-> kind, exc |-> exc, msg |-> msg, val |-> val, sql |-> sql, params |-> params]
Raise(exc, msg) == Out("raise", exc, msg, NoneV, <<>>, <<>>)
Value(val) == Out("value", "", "", val, <<>>, <<>>)
Query(kind, sql, params) == Out(kind, "", "", NoneV, sql, params)
NoQuery == Out("none", "", "", NoneV, <<>>, <<>>)

LAZY_PROXY_CHECK_ERROR == "You are checking Lazy proxy instead of it's value"
LAZY_EMPTY_LIST_FORBIDDEN == "Empty list in Lazy leads to unequivalent results"
UNSAFE_GET == "Get real value is unsafe now"

\* ------------------------------------------------------------------- state
VARIABLES
    DEBUG,       \* LazySubstitute.DEBUG
    check,       \* LazySubstitute.check
    enabled,     \* LazySubstitute.enabled
    func,        \* the wrapped query-building function
    cache,       \* LazySubstitute.cache: signature -> (cache key -> template)
    ctxs,        \* the LazyContext objects entered and not yet left, oldest first
    instance,    \* LazyContext.instance: index into ctxs, 0 for None
    ncalls,      \* wrapped calls made so far
    last         \* what the latest operation did and gave back to its caller

vars == <<DEBUG, check, enabled, func, cache, ctxs, instance, ncalls, last>>

\* ------------------------------------------------------------ LazyContext
\* the normalizer the test application passes to LazyContext
list_to_none(kwargs) ==
    IF "integers" \in DOMAIN kwargs /\ IsSeqVal(kwargs["integers"])
       /\ ~Truthy(kwargs["integers"])
    THEN [kwargs EXCEPT !["integers"] = NoneV]
    ELSE kwargs

Norms == {<<>>, <<"list_to_none">>}

RECURSIVE ApplyNorms(_, _)
ApplyNorms(norms, kwargs) ==
    IF norms = <<>> THEN kwargs
    ELSE ApplyNorms(Tail(norms), list_to_none(kwargs))

\* LazyContext(*args, **params) followed by __enter__ while cur is current
NewContext(norms, params, cur) ==
    [kwargs |-> ApplyNorms(norms, params),
     prev |-> cur,
     values_allowed |-> FALSE,
     called |-> FALSE]

\* a get that looks the key up before it asks whether values may be given
ContextGet_key_first(ctx, key, safe) ==
    IF key \notin DOMAIN ctx.kwargs THEN Raise("KeyError", key)
    ELSE IF ~(ctx.values_allowed \/ safe) THEN Raise("RuntimeError", UNSAFE_GET)
    ELSE Value(ctx.kwargs[key])

\* LazyContext.get
ContextGet(ctx, key, safe) ==
    IF ~(ctx.values_allowed \/ safe) THEN Raise("RuntimeError", UNSAFE_GET)
    ELSE IF key \notin DOMAIN ctx.kwargs THEN Raise("KeyError", key)
    ELSE Value(ctx.kwargs[key])

\* LazyContext.allow_values on the contexts cs with current index inst
AllowValues(cs, inst) ==
    IF inst # 0 THEN [cs EXCEPT ![inst].values_allowed = TRUE] ELSE cs

\* ------------------------------------------------------------------- Lazy
\* a Lazy.__init__ without the empty-list guard
LazyInit_accept(key, value) == Value(LazyV(key))

\* Lazy.__init__(key, value)
LazyInit(key, value) ==
    IF IsSeqVal(value) /\ ~Truthy(value)
    THEN Raise("RuntimeError", LAZY_EMPTY_LIST_FORBIDDEN)
    ELSE Value(LazyV(key))

\* a Lazy.reveal that lets the context's RuntimeError through
LazyReveal_propagate(p, safe, cs, inst) ==
    IF inst = 0 THEN Raise("AttributeError", "get")
    ELSE ContextGet(cs[inst], p.k, safe)

\* Lazy.reveal, "except RuntimeError: return self", r being what get gave
OrSelf(p, r) ==
    IF r.kind = "raise" /\ r.exc = "RuntimeError" THEN Value(p) ELSE r

\* Lazy.reveal(safe) with LazyContext.instance = inst
LazyReveal(p, safe, cs, inst) ==
    IF inst = 0 THEN Raise("AttributeError", "get")
    ELSE OrSelf(p, ContextGet(cs[inst], p.k, safe))

\* module function reveal(value)
reveal(value, cs, inst) ==
    IF value.t = "Lazy" THEN LazyReveal(value, TRUE, cs, inst) ELSE Value(value)

\* bool(value): Lazy.__nonzero__ raises, a real value has its truth value
TruthOf(value) ==
    IF value.t = "Lazy" THEN Raise("RuntimeError", LAZY_PROXY_CHECK_ERROR)
    ELSE Value(IF Truthy(value) THEN TrueV ELSE FalseV)

\* iter(value): Lazy.__iter__ yields one Lazy with the same key
IterOf(value) ==
    IF value.t = "Lazy" THEN <<LazyV(value.k)>>
    ELSE [i \in 1..Len(value.v) |-> IntV(value.v[i])]

\* getattr(value, 'microsecond', 0) is truthy: a hidden attribute of the
\* argument. On a proxy Lazy.__getattr__ forwards to the real value only when
\* the current context allows values; datetime 2 is the one carrying it.
HasHidden(value, cs, inst) ==
    IF value.t = "Lazy"
    THEN /\ inst # 0
         /\ cs[inst].values_allowed
         /\ value.k \in DOMAIN cs[inst].kwargs
         /\ cs[inst].kwargs[value.k] = DateV(2)
    ELSE value = DateV(2)

\* ------------------------------------------------------------- normalize
datetime_to_str(p) == IF p.t = "datetime" THEN StrV(p.v) ELSE p

\* a join that leaves one placeholder whatever the length
JoinPlaceholders_one(n) == <<"%s">>

\* ', '.join(['%s'] * n)
RECURSIVE JoinPlaceholders(_)
JoinPlaceholders(n) ==
    IF n = 0 THEN <<>>
    ELSE IF n = 1 THEN <<"%s">>
    ELSE JoinPlaceholders(n - 1) \o <<", ", "%s">>

CountSlots(sql) == Cardinality({i \in 1..Len(sql) : sql[i] = "%s"})

\* sql % tuple(placeholders), the counts being equal
RECURSIVE Substitute(_, _)
Substitute(sql, placeholders) ==
    IF sql = <<>> THEN <<>>
    ELSE IF Head(sql) = "%s"
         THEN Head(placeholders) \o Substitute(Tail(sql), Tail(placeholders))
         ELSE <<Head(sql)>> \o Substitute(Tail(sql), placeholders)

RECURSIVE Flatten(_)
Flatten(ps) ==
    IF ps = <<>> THEN <<>>
    ELSE (IF IsSeqVal(Head(ps)) THEN IterOf(Head(ps)) ELSE <<Head(ps)>>)
         \o Flatten(Tail(ps))

\* normalize once every parameter is revealed: rs are the outcomes of reveal
Normalized(sql, rs) ==
    LET bad == {i \in 1..Len(rs) : rs[i].kind = "raise"}
        ps == [i \in 1..Len(rs) |-> rs[i].val]
        placeholders ==
            [i \in 1..Len(rs) |->
                IF IsSeqVal(rs[i].val) THEN JoinPlaceholders(Len(rs[i].val.v))
                ELSE <<"%s">>]
    IN IF bad # {}
       THEN rs[CHOOSE i \in bad : \A j \in bad : i <= j]
       ELSE IF CountSlots(sql) # Len(placeholders)
       THEN Raise("TypeError", "format")
       ELSE Query("raw", Substitute(sql, placeholders),
                  [i \in 1..Len(Flatten(ps)) |-> datetime_to_str(Flatten(ps)[i])])

\* normalize(sql, params) with LazyContext.instance = inst
normalize(sql, params, cs, inst) ==
    Normalized(sql, [i \in 1..Len(params) |-> reveal(params[i], cs, inst)])

\* ------------------------------------------------- the wrapped functions
\* An argument left out takes the function's default, None.
Arg(args, n) == IF n \in DOMAIN args THEN args[n] ELSE NoneV

\* the IN clause over n values
InClause(n) == <<"int_field IN (">> \o JoinPlaceholders(n) \o <<")">>

\* the WHERE part: the clauses joined by AND, lead being what comes first
RECURSIVE JoinClauses(_, _)
JoinClauses(cl, lead) ==
    IF cl = <<>> THEN <<>>
    ELSE <<lead>> \o Head(cl) \o JoinClauses(Tail(cl), " AND ")

\* TestModel.objects.filter(**kwargs).query.sql_with_params(): an IN clause
\* with one placeholder per element iterated, a dt clause with one
\* placeholder, and a parameterless clause when flagged.
Filter(useInts, integers, useDt, dt, flagged) ==
    Query("qs",
          <<"SELECT">> \o JoinClauses(
              (IF useInts THEN <<InClause(Len(IterOf(integers)))>> ELSE <<>>)
              \o (IF useDt THEN <<<<"dt = ", "%s">>>> ELSE <<>>)
              \o (IF flagged THEN <<<<"flagged">>>> ELSE <<>>), " WHERE "),
          (IF useInts THEN IterOf(integers) ELSE <<>>)
          \o (IF useDt THEN <<dt>> ELSE <<>>))

\* the truth value of what reveal gave, unless it raised
TruthIfValue(r) == IF r.kind = "raise" THEN r ELSE TruthOf(r.val)

\* if reveal(x): the truth value of the revealed argument
RevealedTruth(value, cs, inst) == TruthIfValue(reveal(value, cs, inst))

\* the body of a builder once its two tests are evaluated: ti and td are
\* their outcomes, hidden whether dt shows the hidden attribute
FilterOn(ti, td, args, hidden) ==
    IF ti.kind = "raise" THEN ti
    ELSE IF td.kind = "raise" THEN td
    ELSE Filter(ti.val = TrueV, Arg(args, "integers"),
                td.val = TrueV, Arg(args, "dt"), td.val = TrueV /\ hidden)

\* TestManager._filter_test_model(integers=None, dt=None)
filter_test_model(args, cs, inst) ==
    FilterOn(RevealedTruth(Arg(args, "integers"), cs, inst),
             RevealedTruth(Arg(args, "dt"), cs, inst), args, FALSE)

\* A builder whose shape depends on what a proxy hides: it tests the
\* integers argument itself for truth and adds a clause when dt carries the
\* hidden attribute.
careless_filter(args, cs, inst) ==
    FilterOn(TruthOf(Arg(args, "integers")),
             RevealedTruth(Arg(args, "dt"), cs, inst), args,
             HasHidden(Arg(args, "dt"), cs, inst))

Builders == {"filter_test_model", "careless_filter"}

\* self.func(this, **kwargs)
CallFunc(f, args, cs, inst) ==
    IF f = "filter_test_model" THEN filter_test_model(args, cs, inst)
    ELSE careless_filter(args, cs, inst)

\* --------------------------------------------------------- LazySubstitute
\* tuple(sorted(kwargs))
RECURSIVE SortedNames(_)
SortedNames(names) ==
    IF names = {} THEN <<>>
    ELSE LET m == CHOOSE n \in names : \A o \in names : NameRank(n) <= NameRank(o)
         IN <<m>> \o SortedNames(names \ {m})

\* a get_cache_key that puts every scalar argument itself into the key
get_cache_key_scalars(params) ==
    [i \in 1..Len(params) |-> IF IsSeqVal(params[i]) THEN stub ELSE params[i]]

\* LazySubstitute.get_cache_key
get_cache_key(params) ==
    [i \in 1..Len(params) |->
        IF \E j \in 1..Len(special) : PyEq(params[i], special[j])
        THEN params[i] ELSE stub]

\* equality of two cache keys as dict keys (tuple ==)
KeyEq(a, b) == Len(a) = Len(b) /\ \A i \in 1..Len(a) : PyEq(a[i], b[i])

EmptyDict == [x \in {} |-> NoQuery]
HasKey(d, key) == \E x \in DOMAIN d : KeyEq(x, key)
Lookup(d, key) == d[CHOOSE x \in DOMAIN d : KeyEq(x, key)]
\* d[key] = value: an equal key already present keeps its place
DictSet(d, key, value) ==
    IF HasKey(d, key)
    THEN [d EXCEPT ![CHOOSE x \in DOMAIN d : KeyEq(x, key)] = value]
    ELSE (key :> value) @@ d

\* LazySubstitute.get_native_queryset
get_native_queryset(kwargs, cs, inst) == CallFunc(func, kwargs, cs, inst)

\* get_lazy_result once the proxies are made: made maps each argument name
\* to the outcome of Lazy(name, value)
CallWithProxies(made, cs, inst) ==
    LET bad == {n \in DOMAIN made : made[n].kind = "raise"}
    IN IF bad # {}
       THEN made[CHOOSE n \in bad : \A o \in bad : NameRank(n) <= NameRank(o)]
       ELSE get_native_queryset([n \in DOMAIN made |-> made[n].val], cs, inst)

\* LazySubstitute.get_lazy_result
get_lazy_result(kwargs, cs, inst) ==
    CallWithProxies([n \in DOMAIN kwargs |-> LazyInit(n, kwargs[n])], cs, inst)

\* an assert_equivalent that compares the parameters before the commands
Compare_params_first(n1, n2) ==
    IF n1.kind = "raise" THEN n1
    ELSE IF n2.kind = "raise" THEN n2
    ELSE IF ~KeyEq(n1.params, n2.params) THEN Raise("ParamsMappingFailed", "")
    ELSE IF n1.sql # n2.sql THEN Raise("SqlMappingFailed", "")
    ELSE NoQuery

\* assert_equivalent on the two normalized results
Compare(n1, n2) ==
    IF n1.kind = "raise" THEN n1
    ELSE IF n2.kind = "raise" THEN n2
    ELSE IF n1.sql # n2.sql THEN Raise("SqlMappingFailed", "")
    ELSE IF ~KeyEq(n1.params, n2.params) THEN Raise("ParamsMappingFailed", "")
    ELSE NoQuery

\* LazySubstitute.assert_equivalent
assert_equivalent(first, second, cs, inst) ==
    Compare(normalize(first.sql, first.params, cs, inst),
            normalize(second.sql, second.params, cs, inst))

IsMappingFailed(r) ==
    r.kind = "raise" /\ r.exc \in {"SqlMappingFailed", "ParamsMappingFailed"}

\* the template written whatever the comparison says
StoreFirst(chk, d, cache_key, raw_qs) ==
    [res |-> IF chk.kind = "raise" THEN chk ELSE raw_qs,
     dict |-> DictSet(d, cache_key, raw_qs)]

\* a cache_result that writes the template before comparing
cache_result_store_first(d, cache_key, lazy_qs, real_qs, cs, inst) ==
    StoreFirst(IF real_qs.kind # "none"
               THEN assert_equivalent(lazy_qs, real_qs, cs, inst)
               ELSE NoQuery,
               d, cache_key, Query("raw", lazy_qs.sql, lazy_qs.params))

\* cache_result after the comparison: chk is its outcome, raw_qs the template
StoreChecked(chk, d, cache_key, raw_qs) ==
    IF chk.kind = "raise"
    THEN [res |-> chk, dict |-> d]
    ELSE [res |-> raw_qs, dict |-> DictSet(d, cache_key, raw_qs)]

\* LazySubstitute.cache_result: res is the RawQuerySet stored (or the
\* exception raised), dict the per-signature cache afterwards
cache_result(d, cache_key, lazy_qs, real_qs, cs, inst) ==
    StoreChecked(IF real_qs.kind # "none"
                 THEN assert_equivalent(lazy_qs, real_qs, cs, inst)
                 ELSE NoQuery,
                 d, cache_key, Query("raw", lazy_qs.sql, lazy_qs.params))

\* a get_normalized_queryset that hands the cached template back as it is
get_normalized_queryset_raw(qs, cs, inst) == qs

\* LazySubstitute.get_normalized_queryset
get_normalized_queryset(qs, cs, inst) == normalize(qs.sql, qs.params, cs, inst)

\* a real pass made on every call, whatever DEBUG says
ExpectedPass_always(kwargs, cs, inst) ==
    [qs |-> get_native_queryset(kwargs, cs, inst), n |-> 1]

\* the real pass made ahead of the lookup (do_call, "if self.DEBUG"): qs is
\* expected_qs, n the number of times the wrapped function ran
ExpectedPass(kwargs, cs, inst) ==
    IF DEBUG
    THEN [qs |-> get_native_queryset(kwargs, cs, inst), n |-> 1]
    ELSE [qs |-> NoQuery, n |-> 0]

\* whether the current context lets values out, as a proxy pass sees it
FlagSeen(cs, inst) ==
    IF inst = 0 THEN "nocontext"
    ELSE IF cs[inst].values_allowed THEN "allowed" ELSE "hidden"

\* a handler that answers every exception of the try block
AbsorbStore(stored, real_qs, cs, inst) ==
    IF stored.res.kind = "raise"
    THEN [res |-> IF DEBUG THEN stored.res ELSE real_qs, dict |-> stored.dict]
    ELSE [res |-> get_normalized_queryset(stored.res, cs, inst),
          dict |-> stored.dict]

\* a proxy pass inside that try block
MissAbsorbing(lazy, real_qs, d, cache_key, cs, inst) ==
    IF lazy.kind = "raise"
    THEN [res |-> IF DEBUG THEN lazy ELSE real_qs, dict |-> d]
    ELSE AbsorbStore(cache_result(d, cache_key, lazy, real_qs, cs, inst),
                     real_qs, cs, inst)

\* a miss branch whose try block also covers the proxy pass and whose handler
\* catches every exception
MissBranch_absorb(kwargs, d, cache_key, expected_qs, cs, inst) ==
    MissAbsorbing(get_lazy_result(kwargs, cs, inst),
                  IF check THEN expected_qs ELSE NoQuery, d, cache_key, cs, inst)

\* the try block of a miss: stored is what cache_result gave
AfterStore(stored, real_qs, cs, inst) ==
    IF IsMappingFailed(stored.res)
    THEN [res |-> IF DEBUG THEN stored.res ELSE real_qs, dict |-> stored.dict]
    ELSE IF stored.res.kind = "raise"
    THEN stored
    ELSE [res |-> get_normalized_queryset(stored.res, cs, inst),
          dict |-> stored.dict]

\* a miss after its proxy pass: lazy is what get_lazy_result gave
AfterProxyPass(lazy, real_qs, d, cache_key, cs, inst) ==
    IF lazy.kind = "raise" THEN [res |-> lazy, dict |-> d]
    ELSE AfterStore(cache_result(d, cache_key, lazy, real_qs, cs, inst),
                    real_qs, cs, inst)

\* do_call, the "except KeyError" branch: res is what the caller gets, dict
\* the per-signature cache afterwards
MissBranch(kwargs, d, cache_key, expected_qs, cs, inst) ==
    AfterProxyPass(get_lazy_result(kwargs, cs, inst),
                   IF check THEN expected_qs ELSE NoQuery, d, cache_key, cs, inst)

\* a hit that skips the comparison with the real result
HitBranch_nocheck(cached_qs, expected, cs, inst) ==
    get_normalized_queryset(cached_qs, cs, inst)

\* the end of a checked hit: chk is what assert_equivalent gave
HitVerdict(chk, normalized_qs) ==
    IF chk.kind = "raise" THEN chk ELSE normalized_qs

\* a hit once the template is normalized
HitCheck(normalized_qs, expected, cs, inst) ==
    IF normalized_qs.kind = "raise" THEN normalized_qs
    ELSE IF DEBUG
    THEN HitVerdict(assert_equivalent(normalized_qs, expected, cs, inst),
                    normalized_qs)
    ELSE normalized_qs

\* do_call after a successful lookup
HitBranch(cached_qs, expected, cs, inst) ==
    HitCheck(get_normalized_queryset(cached_qs, cs, inst), expected, cs, inst)

\* the record an operation leaves in last
Report(op, res, path, nReal, nLazy, seen, sig, key) ==
    [op |-> op, res |-> res, path |-> path, nReal |-> nReal, nLazy |-> nLazy,
     seen |-> seen, sig |-> sig, key |-> key]
Idle(op) == Report(op, NoQuery, "", 0, 0, "", <<>>, <<>>)

\* a miss that keeps nothing but the dictionary of its own signature
Served_only(m, signature, cache_key, c1, n, seen) ==
    [rep |-> Report("call", m.res, "miss", n, 1, seen, signature, cache_key),
     cache |-> (signature :> m.dict)]

\* a miss that, when it raises, empties the dictionary of its signature
Served_forget(m, signature, cache_key, c1, n, seen) ==
    [rep |-> Report("call", m.res, "miss", n, 1, seen, signature, cache_key),
     cache |-> [c1 EXCEPT ![signature] =
                   IF m.res.kind = "raise" THEN EmptyDict ELSE m.dict]]

\* the report and the cache after a miss: m is what the miss branch gave
Served(m, signature, cache_key, c1, n, seen) ==
    [rep |-> Report("call", m.res, "miss", n, 1, seen, signature, cache_key),
     cache |-> [c1 EXCEPT ![signature] = m.dict]]

\* a hit that stores what it normalized in place of the template
WriteBack(res, signature, cache_key, c1, n) ==
    [rep |-> Report("call", res, "hit", n, 0, "", signature, cache_key),
     cache |-> IF res.kind = "raw"
               THEN [c1 EXCEPT ![signature] = DictSet(c1[signature], cache_key, res)]
               ELSE c1]

\* a lookup whose hit branch normalizes the cached queryset in place
LookupAndServe_in_place(signature, cache_key, kwargs, c1, ex, cs, inst) ==
    IF ex.qs.kind = "raise"
    THEN [rep |-> Report("call", ex.qs, "", ex.n, 0, "", signature, cache_key),
          cache |-> c1]
    ELSE IF HasKey(c1[signature], cache_key)
    THEN WriteBack(HitBranch(Lookup(c1[signature], cache_key), ex.qs, cs, inst),
                   signature, cache_key, c1, ex.n)
    ELSE Served(MissBranch(kwargs, c1[signature], cache_key, ex.qs, cs, inst),
                signature, cache_key, c1, ex.n, FlagSeen(cs, inst))

\* do_call from the lookup on: c1 is the cache with the signature's
\* dictionary in place, ex the real pass made ahead
LookupAndServe(signature, cache_key, kwargs, c1, ex, cs, inst) ==
    IF ex.qs.kind = "raise"
    THEN [rep |-> Report("call", ex.qs, "", ex.n, 0, "", signature, cache_key),
          cache |-> c1]
    ELSE IF HasKey(c1[signature], cache_key)
    THEN [rep |-> Report("call",
                         HitBranch(Lookup(c1[signature], cache_key), ex.qs, cs, inst),
                         "hit", ex.n, 0, "", signature, cache_key),
          cache |-> c1]
    ELSE Served(MissBranch(kwargs, c1[signature], cache_key, ex.qs, cs, inst),
                signature, cache_key, c1, ex.n, FlagSeen(cs, inst))

\* do_call once the signature is computed: cache key, self.cache[signature]
\* (a defaultdict: the signature's dictionary is made when absent), real pass
WithSignature(signature, kwargs, c, cs, inst) ==
    LookupAndServe(signature,
                   get_cache_key([i \in 1..Len(signature) |-> kwargs[signature[i]]]),
                   kwargs,
                   IF signature \in DOMAIN c THEN c ELSE (signature :> EmptyDict) @@ c,
                   ExpectedPass(kwargs, cs, inst), cs, inst)

\* LazySubstitute.do_call on the cache c: rep is the report, cache the cache
\* afterwards
do_call(kwargs, c, cs, inst) ==
    WithSignature(SortedNames(DOMAIN kwargs), kwargs, c, cs, inst)

\* what inner leaves: r is what do_call gave, cs2 the contexts after the
\* finally clause
Finally(r, cs2) == [rep |-> r.rep, cache |-> r.cache, ctxs |-> cs2]

\* an inner that allows values before the call instead of after it
inner_allow_first(kwargs, c, cs, inst) ==
    Finally(do_call(kwargs, c, AllowValues(cs, inst), inst), AllowValues(cs, inst))

\* allow_values made only when do_call returned
AllowIfReturned(r, cs, inst) ==
    Finally(r, IF r.rep.res.kind = "raise" THEN cs ELSE AllowValues(cs, inst))

\* an inner without the finally clause: allow_values follows a normal return
inner_allow_on_return(kwargs, c, cs, inst) ==
    AllowIfReturned(do_call(kwargs, c, cs, inst), cs, inst)

\* the decorator's inner: do_call, and allow_values in the finally clause
inner(kwargs, c, cs, inst) ==
    Finally(do_call(kwargs, c, cs, inst), AllowValues(cs, inst))

\* ----------------------------------------------------------------- actions
Init ==
    /\ \E c \in BOOLEAN, d \in BOOLEAN :
          /\ DEBUG = d
          /\ check = (c \/ d)
    /\ enabled \in BOOLEAN
    /\ func \in Builders
    /\ cache = [x \in {} |-> EmptyDict]
    /\ ctxs = <<>>
    /\ instance = 0
    /\ ncalls = 0
    /\ last = Idle("init")

\* with LazyContext(*norms, **params): construction and __enter__, made the
\* way run_cached makes it, from code that runs outside any context
Enter(norms, params) ==
    /\ instance = 0
    /\ ctxs' = Append(ctxs, NewContext(norms, params, instance))
    /\ instance' = Len(ctxs) + 1
    /\ last' = Idle("enter")
    /\ UNCHANGED <<DEBUG, check, enabled, func, cache, ncalls>>

\* LazyContext.__exit__ of the current context
Exit ==
    /\ instance # 0
    /\ instance' = ctxs[instance].prev
    /\ ctxs' = SubSeq(ctxs, 1, Len(ctxs) - 1)
    /\ last' = Idle("exit")
    /\ UNCHANGED <<DEBUG, check, enabled, func, cache, ncalls>>

\* the state after a wrapped call: w is what inner left; the context has
\* now been used for its call
Deliver(w) ==
    /\ cache' = w.cache
    /\ ctxs' = [w.ctxs EXCEPT ![instance].called = TRUE]
    /\ last' = w.rep

\* run_cached's call of the decorated function with the context's values
Call ==
    /\ enabled
    /\ instance # 0
    /\ ~ctxs[instance].called
    /\ ncalls < MaxCalls
    /\ Deliver(inner(ctxs[instance].kwargs, cache, ctxs, instance))
    /\ ncalls' = ncalls + 1
    /\ UNCHANGED <<DEBUG, check, enabled, func, instance>>

\* the same call when the decorator was built with enabled=False and
\* returned func itself
CallDisabled ==
    /\ ~enabled
    /\ instance # 0
    /\ ~ctxs[instance].called
    /\ ncalls < MaxCalls
    /\ last' = Report("call", CallFunc(func, ctxs[instance].kwargs, ctxs, instance),
                      "bypass", 1, 0, "", <<>>, <<>>)
    /\ ctxs' = [ctxs EXCEPT ![instance].called = TRUE]
    /\ ncalls' = ncalls + 1
    /\ UNCHANGED <<DEBUG, check, enabled, func, cache, instance>>

\* rendering code resolving a proxy: Lazy(key).reveal(safe)
Reveal(key, safe) ==
    /\ last' = Report("reveal", LazyReveal(LazyV(key), safe, ctxs, instance),
                      IF safe THEN "safe" ELSE "unsafe", 0, 0,
                      FlagSeen(ctxs, instance), <<key>>, <<>>)
    /\ UNCHANGED <<DEBUG, check, enabled, func, cache, ctxs, instance, ncalls>>

\* ftm_decorator.cache.clear()
ClearCache ==
    /\ DOMAIN cache # {}
    /\ cache' = [x \in {} |-> EmptyDict]
    /\ last' = Idle("clear")
    /\ UNCHANGED <<DEBUG, check, enabled, func, ctxs, instance, ncalls>>

Next ==
    \/ \E norms \in Norms, params \in KwargsSet : Enter(norms, params)
    \/ Exit
    \/ Call
    \/ CallDisabled
    \/ \E key \in ArgNames, safe \in BOOLEAN : Reveal(key, safe)
    \/ ClearCache

Spec == Init /\ [][Next]_vars

\* ------------------------------------------------------ reading a report
\* A report of a wrapped call is read in a state where the context of that
\* call is still current: its kwargs are the arguments of the call.
Called == last.op = "call" /\ last.path \in {"hit", "miss"}
Hit == last.op = "call" /\ last.path = "hit"
Miss == last.op = "call" /\ last.path = "miss"
Returned == last.res.kind \in {"qs", "raw"}
CallKw == ctxs[instance].kwargs
\* the contexts as the call found them, before the finally clause
AtCall == [ctxs EXCEPT ![instance].values_allowed = (last.seen = "allowed")]
\* the per-signature cache of the call, and whether it holds the call's key
Stored == HasKey(cache[last.sig], last.key)
\* building directly with the real arguments, as the executor receives it
RealBuilt == get_native_queryset(CallKw, ctxs, instance)
RealNormal == normalize(RealBuilt.sql, RealBuilt.params, ctxs, instance)
\* the proxy pass of the call
LazyBuilt == get_lazy_result(CallKw, AtCall, instance)
LazyNormal == normalize(LazyBuilt.sql, LazyBuilt.params, AtCall, instance)
SameQuery(a, b) == a.sql = b.sql /\ KeyEq(a.params, b.params)
\* the proxy-built and the real-built (command, parameters) differ
Diverge ==
    /\ LazyBuilt.kind = "qs"
    /\ RealBuilt.kind = "qs"
    /\ ~SameQuery(LazyNormal, RealNormal)
EmptySeqArg == \E n \in DOMAIN CallKw : IsSeqVal(CallKw[n]) /\ ~Truthy(CallKw[n])

\* ------------------------------------------------------------------ claims
\* C1: on the repository's own wrapped function, a call served from a stored
\* template (same signature and key as the miss that stored it, every list
\* argument non-empty) returns the command text and the parameters that
\* building directly with the call's real arguments yields.
C1_RoundTripOnHit ==
    (func = "filter_test_model" /\ Hit /\ Returned /\ ~EmptySeqArg)
        => SameQuery(last.res, RealNormal)

\* C2: with check on and debug off, a miss whose proxy-built and real-built
\* results differ returns the real-built result and stores no template.
C2_NonStrictFallback ==
    (Miss /\ check /\ ~DEBUG /\ Diverge)
        => (last.res = RealBuilt /\ ~Stored)

\* C3: with debug on, a miss whose proxy-built and real-built results differ
\* raises a mapping failure, returns nothing and stores no template.
C3_StrictMissRaises ==
    (Miss /\ DEBUG /\ Diverge)
        => (IsMappingFailed(last.res) /\ ~Stored)

C3_Witness == Miss /\ DEBUG /\ check /\ Diverge /\ IsMappingFailed(last.res)

\* C4 as stated: on every hit with check on, whatever debug is, the real
\* result is built and a mismatch with the normalized template is raised.
C4_HitVerifiedUnderCheck ==
    (Hit /\ check)
        => /\ last.nReal >= 1
           /\ (RealBuilt.kind = "qs" /\ Returned) => SameQuery(last.res, RealNormal)

\* C4 amended: on every hit with debug on the real result is built once and
\* a mismatch with the normalized template is raised, a match returns the
\* normalized template; with debug off (check on or off) a hit builds
\* nothing and compares nothing.
C4_HitVerifiedUnderDebug ==
    Hit =>
        LET cached == Lookup(cache[last.sig], last.key)
            normal == normalize(cached.sql, cached.params, AtCall, instance)
        IN /\ normal.kind = "raw"
           /\ DEBUG => /\ last.nReal = 1
                       /\ IF SameQuery(normal, RealNormal)
                          THEN last.res = normal
                          ELSE IsMappingFailed(last.res)
           /\ ~DEBUG => (last.nReal = 0 /\ last.res = normal)

C4_Witness == Hit /\ DEBUG /\ IsMappingFailed(last.res)

\* C5: with debug off a hit never runs the wrapped function, neither with
\* real values nor with proxies; the result comes from the stored template.
C5_HitSkipsBuilder ==
    (Hit /\ ~DEBUG)
        => /\ last.nReal = 0
           /\ last.nLazy = 0
           /\ LET cached == Lookup(cache[last.sig], last.key)
              IN last.res = normalize(cached.sql, cached.params, AtCall, instance)

C5_Witness == Hit /\ ~DEBUG /\ check /\ Returned /\ Len(last.res.params) > 1

\* the values a template's slots stand for in a call with arguments kw:
\* each slot's argument, a list argument element by element, a datetime as
\* its string
RECURSIVE SlotValues(_, _)
SlotValues(slots, kw) ==
    IF slots = <<>> THEN <<>>
    ELSE LET a == kw[Head(slots).k]
             here == IF IsSeqVal(a) THEN [i \in 1..Len(a.v) |-> IntV(a.v[i])]
                     ELSE IF a.t = "datetime" THEN <<StrV(a.v)>>
                     ELSE <<a>>
         IN here \o SlotValues(Tail(slots), kw)

Revealed == last.op = "reveal" /\ instance # 0 /\ last.sig[1] \in DOMAIN CallKw

\* C8 as stated: reveal returns the real value when values are allowed or
\* the access is safe, and raises in every other case.
C8_RevealOrFail ==
    Revealed =>
        IF last.seen = "allowed" \/ last.path = "safe"
        THEN last.res = Value(CallKw[last.sig[1]])
        ELSE last.res.kind = "raise"

\* C8 amended: reveal returns the real value when values are allowed or the
\* access is safe, and in every other case returns the proxy itself; it
\* raises in neither case.
C8_RevealOrProxy ==
    Revealed =>
        IF last.seen = "allowed" \/ last.path = "safe"
        THEN last.res = Value(CallKw[last.sig[1]])
        ELSE last.res = Value(LazyV(last.sig[1]))

C8_Witness ==
    /\ Revealed
    /\ last.seen = "hidden"
    /\ last.path = "unsafe"
    /\ last.res.val.t = "Lazy"

\* C9: a proxy is never made for an empty list or tuple, so a miss with
\* such an argument raises and stores no template.
C9_EmptyListRejected ==
    /\ \A n \in ArgNames, e \in {ListV(<<>>), TupleV(<<>>)} :
          LazyInit(n, e) = Raise("RuntimeError", LAZY_EMPTY_LIST_FORBIDDEN)
    /\ (Miss /\ EmptySeqArg /\ RealBuilt.kind = "qs")
          => /\ last.res = Raise("RuntimeError", LAZY_EMPTY_LIST_FORBIDDEN)
             /\ ~Stored

C9_Witness ==
    /\ Miss
    /\ EmptySeqArg
    /\ last.res.kind = "raise"
    /\ last.res.msg = LAZY_EMPTY_LIST_FORBIDDEN

\* C10: an error of the proxy pass (an empty list given to Lazy, a proxy
\* tested for truth) reaches the caller in every configuration and is never
\* replaced by the real-built result.
C10_ProxyErrorsPropagate ==
    (Miss /\ LazyBuilt.kind = "raise")
        => /\ last.res = LazyBuilt
           /\ last.res.exc = "RuntimeError"
           /\ ~Stored

C10_Witness ==
    /\ Miss
    /\ check
    /\ ~DEBUG
    /\ last.res.kind = "raise"
    /\ last.res.msg = LAZY_PROXY_CHECK_ERROR

\* ------------------------------------- contexts of several callers (SpecCtx)
\* LazyContext objects made in one behaviour of SpecCtx
MaxCtx == 3

\* the pieces of code that open "with LazyContext(...)" scopes
Callers == {"A", "B"}

\* the arguments each caller passes
CtxKwargs(who) ==
    IF who = "A" THEN {[dt |-> DateV(1)], [integers |-> ListV(<<>>)]}
    ELSE {[dt |-> DateV(2)]}

\* A LazyContext object on the heap of SpecCtx: its fields, and beside them
\* who opened it, whether its __exit__ has run ("open", "closed" when it was
\* the innermost open scope, "closed_early" when it was not) and the context
\* that was current when it was entered.
Scoped(ctx, owner, cur) ==
    [kwargs |-> ctx.kwargs, prev |-> ctx.prev,
     values_allowed |-> ctx.values_allowed, called |-> ctx.called,
     owner |-> owner, scope |-> "open", outer |-> cur]

Live(cs) == {i \in 1..Len(cs) : cs[i].scope = "open"}
MaxOf(S) == IF S = {} THEN 0 ELSE CHOOSE i \in S : \A j \in S : j <= i
\* the innermost scope entered and not yet left, 0 when there is none
Innermost(cs) == MaxOf(Live(cs))
\* the innermost open scope of one caller
Own(cs, who) == MaxOf({i \in Live(cs) : cs[i].owner = who})
\* every scope left so far was the innermost open one when it was left
Nested == \A i \in 1..Len(ctxs) : ctxs[i].scope # "closed_early"

\* the report of an operation of SpecCtx: who made it
ReportBy(who, rep) ==
    [op |-> rep.op, res |-> rep.res, path |-> rep.path, nReal |-> rep.nReal,
     nLazy |-> rep.nLazy, seen |-> rep.seen, sig |-> rep.sig, key |-> rep.key,
     who |-> who]

InitCtx ==
    /\ DEBUG = FALSE
    /\ check = FALSE
    /\ enabled = TRUE
    /\ func = "filter_test_model"
    /\ cache = [x \in {} |-> EmptyDict]
    /\ ctxs = <<>>
    /\ instance = 0
    /\ ncalls = 0
    /\ last = ReportBy("", Idle("init"))

\* with LazyContext(**params): __init__ and __enter__
CtxEnter(who, params) ==
    /\ Len(ctxs) < MaxCtx
    /\ ctxs' = Append(ctxs, Scoped(NewContext(<<>>, params, instance), who, instance))
    /\ instance' = Len(ctxs) + 1
    /\ last' = ReportBy(who, Idle("enter"))
    /\ UNCHANGED <<DEBUG, check, enabled, func, cache, ncalls>>

\* an __exit__ that resets the class attribute instead of restoring it
ExitOf_reset(o, who, exc) ==
    /\ instance' = 0
    /\ ctxs' = [ctxs EXCEPT ![o].scope =
                   IF o = Innermost(ctxs) THEN "closed" ELSE "closed_early"]
    /\ last' = ReportBy(who, Report("exit", NoQuery, IF exc THEN "error" ELSE "return",
                                    0, 0, "", <<>>, <<>>))

\* an __exit__ that makes the innermost scope still open the current one
ExitOf_stack(o, who, exc) ==
    /\ instance' = MaxOf(Live(ctxs) \ {o})
    /\ ctxs' = [ctxs EXCEPT ![o].scope =
                   IF o = Innermost(ctxs) THEN "closed" ELSE "closed_early"]
    /\ last' = ReportBy(who, Report("exit", NoQuery, IF exc THEN "error" ELSE "return",
                                    0, 0, "", <<>>, <<>>))

\* LazyContext.__exit__ of context o: exc tells whether the with block ended
\* by an exception, which __exit__ does not look at and does not swallow
ExitOf(o, who, exc) ==
    /\ instance' = ctxs[o].prev
    /\ ctxs' = [ctxs EXCEPT ![o].scope =
                   IF o = Innermost(ctxs) THEN "closed" ELSE "closed_early"]
    /\ last' = ReportBy(who, Report("exit", NoQuery, IF exc THEN "error" ELSE "return",
                                    0, 0, "", <<>>, <<>>))

\* a caller leaves its innermost "with LazyContext" block
CtxExit(who, exc) ==
    /\ Own(ctxs, who) # 0
    /\ ExitOf(Own(ctxs, who), who, exc)
    /\ UNCHANGED <<DEBUG, check, enabled, func, cache, ncalls>>

\* the state after a wrapped call made from scope o
DeliverTo(o, who, w) ==
    /\ cache' = w.cache
    /\ ctxs' = [w.ctxs EXCEPT ![o].called = TRUE]
    /\ last' = ReportBy(who, w.rep)

\* a caller calls the decorated function inside its innermost block, with
\* the arguments it gave that block
CtxCall(who) ==
    /\ Own(ctxs, who) # 0
    /\ ~ctxs[Own(ctxs, who)].called
    /\ DeliverTo(Own(ctxs, who), who,
                 inner(ctxs[Own(ctxs, who)].kwargs, cache, ctxs, instance))
    /\ ncalls' = ncalls + 1
    /\ UNCHANGED <<DEBUG, check, enabled, func, instance>>

\* code of a caller, inside its block, resolving a proxy: reveal(Lazy(key))
CtxReveal(who, key) ==
    /\ Own(ctxs, who) # 0
    /\ last' = ReportBy(who, Report("reveal", reveal(LazyV(key), ctxs, instance),
                                    "safe", 0, 0, FlagSeen(ctxs, instance),
                                    <<key>>, <<>>))
    /\ UNCHANGED <<DEBUG, check, enabled, func, cache, ctxs, instance, ncalls>>

NextCtx ==
    \/ \E who \in Callers : \E params \in CtxKwargs(who) : CtxEnter(who, params)
    \/ \E who \in Callers, exc \in BOOLEAN : CtxExit(who, exc)
    \/ \E who \in Callers : CtxCall(who)
    \/ \E who \in Callers, key \in ArgNames : CtxReveal(who, key)

SpecCtx == InitCtx /\ [][NextCtx]_vars

\* ---------------------------------------------------- claims on contexts
\* the step is the __exit__ of context i
ExitStep(i) ==
    /\ i \in 1..Len(ctxs)
    /\ Len(ctxs') = Len(ctxs)
    /\ ctxs[i].scope = "open"
    /\ ctxs'[i].scope # "open"

\* C11: while scopes are entered and left properly nested, each exit, by
\* normal return or by an error, makes current the context that was current
\* just before the matching enter; once every scope is left the current
\* context is None again, as before the first enter.
C11_NestedExitRestores ==
    /\ [](Nested /\ Live(ctxs) = {} => instance = 0)
    /\ [][\A i \in 1..MaxCtx :
             (ExitStep(i) /\ Nested') => instance' = ctxs[i].outer]_vars

C11_Witness ==
    /\ Nested
    /\ last.op = "exit"
    /\ last.path = "error"
    /\ instance # 0
    /\ Len(ctxs) = MaxCtx
    /\ Cardinality(Live(ctxs)) = 1

\* C12: with caching enabled and a context current, every call of the
\* decorated function (a hit, a miss, or one that raises) ends with the
\* current context allowing values; allow_values changes the flag of the
\* current context only, never that of another context, and making it twice
\* gives what making it once gives.
C12_CallEndsAllowingValues ==
    /\ [](AllowValues(AllowValues(ctxs, instance), instance)
            = AllowValues(ctxs, instance))
    /\ [][(ncalls' = ncalls + 1 /\ enabled /\ instance # 0) =>
            /\ ctxs'[instance].values_allowed
            /\ \A i \in 1..Len(ctxs) :
                  i # instance =>
                      ctxs'[i].values_allowed = ctxs[i].values_allowed]_vars

C12_Witness ==
    /\ last.op = "call"
    /\ last.res.kind = "raise"
    /\ instance = Innermost(ctxs)
    /\ instance # 0
    /\ ctxs[instance].called
    /\ ctxs[instance].values_allowed
    /\ ctxs[instance].outer # 0
    /\ ctxs[ctxs[instance].outer].scope = "open"
    /\ ~ctxs[ctxs[instance].outer].values_allowed

\* a reveal made by a caller from inside one of its own open blocks
RevealBy == last.op = "reveal" /\ Own(ctxs, last.who) # 0

\* C19: the one class-wide pointer follows the scopes only while they nest.
\* Properly nested, it is always the innermost scope entered and not yet
\* left. When the scopes of two callers interleave (A enters, B enters, A
\* exits, B exits) it ends on A's context, which has been left and is not
\* B's; and a reveal always reads the context the pointer designates,
\* whoever makes it.
C19_PointerFollowsNestingOnly ==
    /\ Nested => instance = Innermost(ctxs)
    /\ (/\ Len(ctxs) = 2
        /\ ctxs[1].owner # ctxs[2].owner
        /\ ctxs[1].scope = "closed_early"
        /\ ctxs[2].scope = "closed")
          => (instance = 1 /\ Innermost(ctxs) = 0)
    /\ (RevealBy /\ instance # 0 /\ last.sig[1] \in DOMAIN ctxs[instance].kwargs)
          => last.res = Value(ctxs[instance].kwargs[last.sig[1]])

C19_Witness ==
    /\ RevealBy
    /\ instance # 0
    /\ instance # Own(ctxs, last.who)
    /\ ctxs[instance].owner # last.who
    /\ ctxs[instance].scope # "open"
    /\ last.res.kind = "value"
    /\ last.sig[1] \in DOMAIN ctxs[Own(ctxs, last.who)].kwargs
    /\ last.res.val # ctxs[Own(ctxs, last.who)].kwargs[last.sig[1]]

\* --------------------------------------- the functions one by one (SpecPure)
\* values an argument may have when a cache key is computed
KeyVals ==
    {TrueV, FalseV, NoneV, IntV(0), IntV(1), IntV(2), FloatV(1), StrV(<<>>),
     DateV(1), DateV(2), ListV(<<>>), ListV(<<1>>)}
\* the argument values of a call, in signature order
KeySeqs == {<<>>} \cup {<<a>> : a \in KeyVals} \cup {<<a, b>> : a, b \in KeyVals}

\* an application of one function: its name, its arguments, and its
\* result once it is made
Pending(op, args) == [op |-> op, args |-> args, res |-> NoQuery, done |-> FALSE]
Applied(op, args, res) == [op |-> op, args |-> args, res |-> res, done |-> TRUE]
Awaits(op) == last.op = op /\ ~last.done

\* self.get_cache_key(params)
ApplyGetCacheKey ==
    /\ Awaits("get_cache_key")
    /\ last' = Applied(last.op, last.args, get_cache_key(last.args))
    /\ UNCHANGED <<DEBUG, check, enabled, func, cache, ctxs, instance, ncalls>>

\* LazyContext.instance.get(key, safe=safe)
ApplyGet ==
    /\ Awaits("get")
    /\ last' = Applied(last.op, last.args,
                       ContextGet(ctxs[instance], last.args.key, last.args.safe))
    /\ UNCHANGED <<DEBUG, check, enabled, func, cache, ctxs, instance, ncalls>>

\* LazyContext.allow_values()
ApplyAllowValues ==
    /\ ctxs' = AllowValues(ctxs, instance)
    /\ UNCHANGED <<DEBUG, check, enabled, func, cache, instance, ncalls, last>>

\* names a call may supply, and the keyword arguments as the call wrote
\* them: name and value pairs, no name twice, in any order
SigNames == ArgNames \cup {"limit"}
SigVals == {NoneV, IntV(1)}
Written ==
    {w \in UNION {[1..n -> SigNames \X SigVals] : n \in 0..Cardinality(SigNames)} :
        \A i, j \in 1..Len(w) : i # j => w[i][1] # w[j][1]}

\* iterating the dictionary: its names in the order written
KeysOf(items) == [i \in 1..Len(items) |-> items[i][1]]

\* sorted(): each name put in its place among those already sorted
RECURSIVE InsertName(_, _)
InsertName(n, s) ==
    IF s = <<>> THEN <<n>>
    ELSE IF NameRank(n) <= NameRank(Head(s)) THEN <<n>> \o s
    ELSE <<Head(s)>> \o InsertName(n, Tail(s))

RECURSIVE sorted(_)
sorted(s) == IF s = <<>> THEN <<>> ELSE InsertName(Head(s), sorted(Tail(s)))

\* a signature that keeps the names in the order the call wrote them
Signature_as_written(items) == KeysOf(items)

\* do_call: signature = tuple(sorted(kwargs))
Signature(items) == sorted(KeysOf(items))

ApplySignature ==
    /\ Awaits("signature")
    /\ last' = Applied(last.op, last.args, Signature(last.args))
    /\ UNCHANGED <<DEBUG, check, enabled, func, cache, ctxs, instance, ncalls>>

\* (command, parameters) pairs handed to normalize: what the builder's
\* filter gives for proxies and for real values, and a command whose one
\* parameter is a real list
IntSlots == {LazyV("integers")} \cup {ListV(Countdown(n)) : n \in 0..MaxLen}
DtSlots == {LazyV("dt"), DateV(1), StrV(<<>>)}
PureQueries ==
    {Filter(ui, iv, ud, dv, FALSE) :
        ui \in BOOLEAN, iv \in IntSlots, ud \in BOOLEAN, dv \in DtSlots}
    \cup {Query("qs", InClause(1), <<v>>) :
            v \in {TupleV(<<>>)} \cup {ListV(Countdown(n)) : n \in 0..MaxLen}}

\* normalize((sql, params))
ApplyNormalize ==
    /\ Awaits("normalize")
    /\ last' = Applied(last.op, last.args,
                       normalize(last.args.sql, last.args.params, ctxs, instance))
    /\ UNCHANGED <<DEBUG, check, enabled, func, cache, ctxs, instance, ncalls>>

\* self.assert_equivalent(first, second, message)
ApplyAssertEquivalent ==
    /\ Awaits("assert_equivalent")
    /\ last' = Applied(last.op, last.args,
                       assert_equivalent(last.args[1], last.args[2], ctxs, instance))
    /\ UNCHANGED <<DEBUG, check, enabled, func, cache, ctxs, instance, ncalls>>

\* one LazyContext is current, holding any of the caller's dictionaries,
\* with values hidden or allowed; one function is about to be applied to
\* arguments drawn from the sets above
InitPure ==
    /\ DEBUG = FALSE
    /\ check = FALSE
    /\ enabled = TRUE
    /\ func = "filter_test_model"
    /\ cache = [x \in {} |-> EmptyDict]
    /\ \E kw \in KwargsSet, allowed \in BOOLEAN :
          ctxs = <<[NewContext(<<>>, kw, 0) EXCEPT !.values_allowed = allowed]>>
    /\ instance = 1
    /\ ncalls = 0
    /\ \/ \E params \in KeySeqs : last = Pending("get_cache_key", params)
       \/ \E key \in SigNames, safe \in BOOLEAN :
             last = Pending("get", [key |-> key, safe |-> safe])
       \/ \E items \in Written : last = Pending("signature", items)
       \/ \E q \in PureQueries : last = Pending("normalize", q)
       \/ \E first \in PureQueries, second \in PureQueries :
             last = Pending("assert_equivalent", <<first, second>>)

NextPure ==
    \/ ApplyGetCacheKey
    \/ ApplyGet
    \/ ApplyAllowValues
    \/ ApplySignature
    \/ ApplyNormalize
    \/ ApplyAssertEquivalent

SpecPure == InitPure /\ [][NextPure]_vars

\* ------------------------------------------- claims on the functions
\* a value Python finds in LazySubstitute.special
IsSpecial(a) == \E j \in 1..Len(special) : PyEq(a, special[j])
\* the entries a key may hold, as dictionary keys tell them apart
KeyEntries == {special[j] : j \in 1..Len(special)} \cup {stub}

\* C13: the cache key has one entry per argument, in the arguments' order;
\* the entry is the argument itself exactly when the argument is one of
\* True, False, None, 0, 1 (as Python's "in" finds it) and the stub for
\* every other value; so a position holds at most 6 entries, and two calls
\* that differ only in values outside the five have equal keys.
C13_CacheKeyEntries ==
    (last.op = "get_cache_key" /\ last.done) =>
        /\ Len(last.res) = Len(last.args)
        /\ \A i \in 1..Len(last.args) :
              /\ IsSpecial(last.args[i]) => last.res[i] = last.args[i]
              /\ ~IsSpecial(last.args[i]) => last.res[i] = stub
              /\ \E e \in KeyEntries : PyEq(last.res[i], e)
        /\ Cardinality(KeyEntries) <= 6
        /\ \A other \in KeySeqs :
              (/\ Len(other) = Len(last.args)
               /\ \A i \in 1..Len(other) :
                     \/ PyEq(other[i], last.args[i])
                     \/ ~IsSpecial(other[i]) /\ ~IsSpecial(last.args[i]))
                  => KeyEq(get_cache_key(other), last.res)

C13_Witness ==
    /\ last.op = "get_cache_key"
    /\ last.done
    /\ last.args = <<ListV(<<1>>), IntV(1)>>
    /\ last.res = <<stub, IntV(1)>>

\* the real value a parameter slot stands for in context ctx
SlotReal(p, ctx) == IF p.t = "Lazy" THEN ctx.kwargs[p.k] ELSE p
\* how many placeholders and values a slot takes once normalized
Width(r) == IF IsSeqVal(r) THEN Len(r.v) ELSE 1
\* the values a slot contributes, a datetime as its string
Elements(r) ==
    IF IsSeqVal(r) THEN [i \in 1..Len(r.v) |-> IntV(r.v[i])]
    ELSE IF r.t = "datetime" THEN <<StrV(r.v)>>
    ELSE <<r>>

RECURSIVE ParamValues(_, _)
ParamValues(params, ctx) ==
    IF params = <<>> THEN <<>>
    ELSE Elements(SlotReal(Head(params), ctx)) \o ParamValues(Tail(params), ctx)

\* the command text without its placeholders and their separators
IsText(tok) == tok \notin {"%s", ", "}
\* the place of a token: how many pieces of text come before it
GapOf(sql, i) == Cardinality({j \in 1..(i - 1) : IsText(sql[j])})
\* the placeholders standing at place g
RunAt(sql, g) == Cardinality({i \in 1..Len(sql) : sql[i] = "%s" /\ GapOf(sql, i) = g})
\* the position in sql of its k-th placeholder
SlotPos(sql, k) ==
    CHOOSE i \in 1..Len(sql) :
        sql[i] = "%s" /\ Cardinality({j \in 1..i : sql[j] = "%s"}) = k

RECURSIVE SumOver(_, _)
SumOver(ks, w) ==
    IF ks = {} THEN 0
    ELSE LET k == CHOOSE x \in ks : TRUE IN w[k] + SumOver(ks \ {k}, w)

\* the widths, added up, of the slots of params standing at place g of sql
WidthAt(sql, params, ctx, g) ==
    SumOver({k \in 1..Len(params) : GapOf(sql, SlotPos(sql, k)) = g},
            [k \in 1..Len(params) |-> Width(SlotReal(params[k], ctx))])

\* normalize is given a command with one placeholder per parameter, and
\* every proxy among the parameters names a value of the current context
Normalizable(q, ctx) ==
    /\ CountSlots(q.sql) = Len(q.params)
    /\ \A i \in 1..Len(q.params) :
          q.params[i].t = "Lazy" => q.params[i].k \in DOMAIN ctx.kwargs

\* C14: normalize gives, for each parameter slot in order, N placeholders
\* and N consecutive values when the slot's real value is a sequence of
\* length N, and one placeholder and one value otherwise (a datetime as its
\* string); as many parameters come out as placeholders, the text around
\* the placeholders is unchanged, and values are revealed whether or not the
\* context allows values.
C14_NormalizeExpandsSlots ==
    (last.op = "normalize" /\ last.done /\ Normalizable(last.args, ctxs[instance]))
        => /\ last.res.kind = "raw"
           /\ CountSlots(last.res.sql) = Len(last.res.params)
           /\ last.res.params = ParamValues(last.args.params, ctxs[instance])
           /\ SelectSeq(last.res.sql, IsText) = SelectSeq(last.args.sql, IsText)
           /\ \A g \in 0..Len(last.args.sql) :
                 RunAt(last.res.sql, g)
                    = WidthAt(last.args.sql, last.args.params, ctxs[instance], g)

C14_Witness ==
    /\ last.op = "normalize"
    /\ last.done
    /\ ~ctxs[instance].values_allowed
    /\ last.args.params = <<LazyV("integers"), LazyV("dt")>>
    /\ last.res.params = <<IntV(2), IntV(1), StrV(<<2>>)>>
    /\ CountSlots(last.res.sql) = 3

\* the two arguments of assert_equivalent, normalized
First == normalize(last.args[1].sql, last.args[1].params, ctxs, instance)
Second == normalize(last.args[2].sql, last.args[2].params, ctxs, instance)

\* C15: assert_equivalent, both pairs being normalized, raises
\* SqlMappingFailed when the command texts differ, whatever the parameters;
\* raises ParamsMappingFailed when the texts are equal and the parameter
\* tuples differ; and returns exactly when both are equal.
C15_EquivalenceVerdicts ==
    (/\ last.op = "assert_equivalent"
     /\ last.done
     /\ First.kind = "raw"
     /\ Second.kind = "raw")
        => /\ First.sql # Second.sql
                => last.res = Raise("SqlMappingFailed", "")
           /\ (First.sql = Second.sql /\ ~KeyEq(First.params, Second.params))
                => last.res = Raise("ParamsMappingFailed", "")
           /\ last.res.kind # "raise"
                <=> (First.sql = Second.sql /\ KeyEq(First.params, Second.params))

C15_Witness ==
    /\ last.op = "assert_equivalent"
    /\ last.done
    /\ First.kind = "raw"
    /\ Second.kind = "raw"
    /\ First.sql # Second.sql
    /\ First.params # Second.params
    /\ Len(First.params) = Len(Second.params)
    /\ last.res.exc = "SqlMappingFailed"

\* C16: get(key, safe) raises the unsafe-access RuntimeError when neither
\* safe nor values_allowed holds, also for a key the context has; otherwise
\* it returns the value stored for key, or raises KeyError when the context
\* has no such key; and it leaves the context as it was.
C16_GetGuards ==
    [][(Awaits("get") /\ last'.done) =>
          /\ ctxs' = ctxs
          /\ instance' = instance
          /\ IF ~(ctxs[instance].values_allowed \/ last.args.safe)
             THEN last'.res = Raise("RuntimeError", UNSAFE_GET)
             ELSE IF last.args.key \in DOMAIN ctxs[instance].kwargs
             THEN last'.res = Value(ctxs[instance].kwargs[last.args.key])
             ELSE last'.res = Raise("KeyError", last.args.key)]_vars

C16_Witness ==
    /\ last.op = "get"
    /\ last.done
    /\ ~last.args.safe
    /\ ~ctxs[instance].values_allowed
    /\ last.args.key \in DOMAIN ctxs[instance].kwargs
    /\ last.res = Raise("RuntimeError", UNSAFE_GET)

\* the names a call supplied
NamesOf(items) == {items[i][1] : i \in 1..Len(items)}

\* C18: the signature of a call is the sorted tuple of the names it
\* supplied: it holds each name once, in rising order; calls supplying the
\* same names have the same signature whatever the values and the order
\* written, and calls supplying different names have different signatures.
C18_SignatureIsSortedNames ==
    (last.op = "signature" /\ last.done) =>
        /\ Len(last.res) = Len(last.args)
        /\ {last.res[i] : i \in 1..Len(last.res)} = NamesOf(last.args)
        /\ \A i, j \in 1..Len(last.res) :
              i < j => NameRank(last.res[i]) < NameRank(last.res[j])
        /\ last.res = SortedNames(NamesOf(last.args))
        /\ \A other \in Written :
              NamesOf(other) = NamesOf(last.args) <=> Signature(other) = last.res

C18_Witness ==
    /\ last.op = "signature"
    /\ last.done
    /\ last.args = <<<<"limit", IntV(1)>>, <<"integers", NoneV>>, <<"dt", NoneV>>>>
    /\ last.res = <<"dt", "integers", "limit">>

\* ------------------------------------------------- claims on the cache
\* the (signature, key) pairs a cache holds a template for
Entries(c) == UNION {{<<sig, k>> : k \in DOMAIN c[sig]} : sig \in DOMAIN c}
\* the step is a call of the decorated function
CallStep == enabled /\ ncalls' = ncalls + 1

\* C17: without a clear no stored template and no signature is ever
\* removed; a miss that returns adds exactly one template, a hit adds none;
\* the first call on an empty cache is a miss and leaves exactly one
\* signature in it; a clear empties the cache.
C17_CacheGrowsUntilCleared ==
    [][/\ last'.op # "clear" =>
             /\ DOMAIN cache \subseteq DOMAIN cache'
             /\ Entries(cache) \subseteq Entries(cache')
       /\ last'.op = "clear" => DOMAIN cache' = {}
       /\ CallStep =>
             /\ (last'.path = "miss" /\ last'.res.kind \in {"qs", "raw"}) =>
                   Cardinality(Entries(cache')) = Cardinality(Entries(cache)) + 1
             /\ last'.path = "hit" => Entries(cache') = Entries(cache)
             /\ DOMAIN cache = {} =>
                   /\ last'.path = "miss"
                   /\ Cardinality(DOMAIN cache') = 1]_vars

C17_Witness ==
    /\ Miss
    /\ Returned
    /\ Cardinality(DOMAIN cache) = 2
    /\ Cardinality(Entries(cache)) = 3

\* C20: a stored template holds proxies for the call's arguments, never
\* real values; a hit leaves the whole cache as it was and returns a pair
\* of its own holding no proxy, whatever the arguments and list lengths of
\* the hit; and no step but a clear alters or drops a stored template.
C20_TemplatesNeverMutated ==
    /\ [](\A e \in Entries(cache) :
             /\ cache[e[1]][e[2]].kind = "raw"
             /\ \A i \in 1..Len(cache[e[1]][e[2]].params) :
                   /\ cache[e[1]][e[2]].params[i].t = "Lazy"
                   /\ \E j \in 1..Len(e[1]) : cache[e[1]][e[2]].params[i].k = e[1][j])
    /\ [][/\ (CallStep /\ last'.path = "hit") =>
                /\ cache' = cache
                /\ last'.res.kind = "raw" =>
                      \A i \in 1..Len(last'.res.params) : last'.res.params[i].t # "Lazy"
          /\ last'.op # "clear" =>
                \A e \in Entries(cache) :
                    /\ e \in Entries(cache')
                    /\ cache'[e[1]][e[2]] = cache[e[1]][e[2]]]_vars

C20_Witness ==
    /\ Hit
    /\ Returned
    /\ Len(Lookup(cache[last.sig], last.key).params) = 1
    /\ Lookup(cache[last.sig], last.key).params[1] = LazyV("integers")
    /\ Len(last.res.params) = MaxLen

\* C21: a wrapped call given an empty list or tuple never returns a result
\* made from a cached template: hit or miss, debug on or off, it ends in an
\* error.
C21_EmptyListNeverServed ==
    (last.op = "call" /\ last.path \in {"hit", "miss"} /\ EmptySeqArg)
        => last.res.kind = "raise"

====
